---- MODULE Spec2Model ----
(***************************************************************************)
(* Model of the recursive-descent parser of src/frontend/parser.ts.        *)
(*                                                                         *)
(* The parser is modelled as a stack machine.  `tokens` is the token       *)
(* buffer (this.tokens), consumed destructively from the front by eat()    *)
(* and expect().  `stack` is the JavaScript call stack: one frame per      *)
(* active parse_* call, holding the function's name, the position reached  *)
(* in its body (pc) and its local variables.  `ret` is the value returned  *)
(* by the call that finished last.  One action models one parse_*          *)
(* function; a step of it runs the function from the position recorded in  *)
(* the frame up to its next call, its return, or the halt of the parse.    *)
(***************************************************************************)
EXTENDS Integers, Sequences, FiniteSets, TLC

VARIABLES
    input,      \* the token sequence tokenize() produced (never changed)
    tokens,     \* this.tokens: the unconsumed suffix of input
    stack,      \* call stack of parse_* frames, innermost last
    ret,        \* value returned by the last finished call
    program,    \* program.body of produceAST
    status,     \* "running" | "returned" | "halted"
    err         \* why the parse halted ("" while it has not)

vars == <<input, tokens, stack, ret, program, status, err>>

(***************************************************************************)
(* Bounds of the checked input families.                                   *)
(***************************************************************************)
MaxLen == 2         \* every token sequence of at most MaxLen tokens, then EOF
MaxChain == 3       \* operator chains of at most MaxChain operands
MaxExprLen == 4     \* call/member/parenthesis sequences of at most MaxExprLen tokens

(***************************************************************************)
(* Tokens.  A token is {type, value}.  The lexer is not part of the parser *)
(* source; the token types are the members of TokenType the parser names,  *)
(* plus the type of the arithmetic operator tokens, which the parser       *)
(* recognises by value only.  Punctuation and keywords carry their literal *)
(* text; identifiers, numbers, strings and EOF carry some text.            *)
(***************************************************************************)
Tok(type, value) == [type |-> type, value |-> value]

Lexeme(type) ==
    CASE type = "Set" -> "set"
      [] type = "Lock" -> "lock"
      [] type = "Fun" -> "fun"
      [] type = "If" -> "if"
      [] type = "Else" -> "else"
      [] type = "OpenBrace" -> "{"
      [] type = "CloseBrace" -> "}"
      [] type = "OpenParen" -> "("
      [] type = "CloseParen" -> ")"
      [] type = "OpenBracket" -> "["
      [] type = "CloseBracket" -> "]"
      [] type = "Dot" -> "."
      [] type = "Comma" -> ","
      [] type = "Colon" -> ":"
      [] type = "Semicolon" -> ";"
      [] type = "Equals" -> "="
      [] type = "DoubleEquals" -> "=="
      [] type = "NotEquals" -> "!="

P(type) == Tok(type, Lexeme(type))
Id(name) == Tok("Identifier", name)
Num(text) == Tok("Number", text)
Str(text) == Tok("String", text)
Op(text) == Tok("BinaryOperator", text)
Eof(text) == Tok("EOF", text)

FixedTypes ==
    {"Set", "Lock", "Fun", "If", "Else", "OpenBrace", "CloseBrace", "OpenParen",
     "CloseParen", "OpenBracket", "CloseBracket", "Dot", "Comma", "Colon",
     "Semicolon", "Equals", "DoubleEquals", "NotEquals"}

AddOps == {"+", "-"}
MulOps == {"/", "*", "%"}

\* The text an EOF token may carry.
EofTexts == {"EndOfFile", "+", "-", "*"}
EOFs == {Eof(v) : v \in EofTexts}
EOF == Eof("EndOfFile")

(***************************************************************************)
(* AST nodes (./ast.ts), as the parser's object literals build them.       *)
(***************************************************************************)
Undefined == [kind |-> "undefined"]
EmptyExpr == [kind |-> "{}"]

\* JavaScript values are dynamically typed: a literal's value is a number or a
\* string, and carries which of the two it is.
JsNumber(n) == [number |-> n]
JsString(text) == [string |-> text]

Identifier(symbol) == [kind |-> "Identifier", symbol |-> symbol]
NumericLiteral(value) == [kind |-> "NumericLiteral", value |-> JsNumber(value)]
StringLiteral(value) == [kind |-> "StringLiteral", value |-> JsString(value)]
BinaryExpr(left, right, operator) ==
    [kind |-> "BinaryExpr", left |-> left, right |-> right, operator |-> operator]
EqualityExpr(left, operator, right) ==
    [kind |-> "EqualityExpr", left |-> left, operator |-> operator, right |-> right]
MemberExpr(object, property, computed) ==
    [kind |-> "MemberExpr", object |-> object, property |-> property,
     computed |-> computed]
CallExpr(caller, args) == [kind |-> "CallExpr", caller |-> caller, args |-> args]
AssignmentExpr(value, assigne) ==
    [kind |-> "AssignmentExpr", value |-> value, assigne |-> assigne]
ShorthandProperty(key) == [kind |-> "Property", key |-> key]
Property(key, value) == [kind |-> "Property", key |-> key, value |-> value]
ArgList(args) == [kind |-> "Arguments", list |-> args]
ObjectLiteral(properties) == [kind |-> "ObjectLiteral", properties |-> properties]
BareVarDeclaration(identifier) ==
    [kind |-> "VarDeclaration", identifier |-> identifier, constant |-> FALSE]
VarDeclaration(value, identifier, constant) ==
    [kind |-> "VarDeclaration", value |-> value, identifier |-> identifier,
     constant |-> constant]
FunctionDeclaration(body, name, parameters) ==
    [kind |-> "FunctionDeclaration", body |-> body, name |-> name,
     parameters |-> parameters]
\* An if without else: alternate stays undefined.
IfStmtNoElse(conditional, consequent) ==
    [kind |-> "IfStmt", conditional |-> conditional, operator |-> "BinaryEquals",
     right |-> EmptyExpr, consequent |-> consequent]
IfStmt(conditional, consequent, alternate) ==
    [kind |-> "IfStmt", conditional |-> conditional, operator |-> "BinaryEquals",
     right |-> EmptyExpr, consequent |-> consequent, alternate |-> alternate]

\* parseFloat on the text of a Number token: the number its digits denote.
ParseFloat(text) ==
    CASE text = "0" -> 0
      [] text = "1" -> 1
      [] text = "2" -> 2
      [] text = "3" -> 3

(***************************************************************************)
(* The token cursor.                                                       *)
(***************************************************************************)
\* at(): this.tokens[0]
at(toks) == toks[1]

\* not_eof(): this.tokens[0].type != TokenType.EOF
not_eof(toks) == toks[1].type # "EOF"

\* A cursor that returns the front token without advancing.
eat_NoAdvance(toks) == toks

\* eat(): removes the front token (the caller has looked at it with at()).
eat(toks) == Tail(toks)

\* shift() on the buffer: removes the front token, a no-op on an empty array.
Shift(toks) == IF toks = <<>> THEN <<>> ELSE Tail(toks)

\* Frames and the stack.
Top == stack[Len(stack)]
Running(fn) == status = "running" /\ stack # <<>> /\ Top.fn = fn
Replace(f) == [stack EXCEPT ![Len(stack)] = f]
CallFrom(f, callee) == Append(Replace(f), callee)
Popped == SubSeq(stack, 1, Len(stack) - 1)

\* The parse goes on with buffer toks, stack stk and returned value r.
Go(toks, stk, r) ==
    /\ tokens' = toks
    /\ stack' = stk
    /\ ret' = r
    /\ UNCHANGED <<input, program, status, err>>

\* The current function returns r to its caller.
Return(toks, r) == Go(toks, Popped, r)

\* The parse halts: Deno.exit(1) or an uncaught exception.
Halt(toks, e) ==
    /\ tokens' = toks
    /\ status' = "halted"
    /\ err' = e
    /\ UNCHANGED <<input, stack, ret, program>>

\* A read of a field of at(): on an empty buffer at() is undefined and the read
\* throws a TypeError; otherwise the parse goes on as `then` says.
At(toks, then) == IF toks = <<>> THEN Halt(toks, "TypeError") ELSE then

\* expect(type, err): shifts the front token and exits unless it has the type;
\* otherwise the parse goes on, with the buffer Shift(toks), as `then` says.
Expect(toks, type, then) ==
    IF toks # <<>> /\ at(toks).type = type
    THEN then
    ELSE Halt(Shift(toks), "expect")

\* New frames, one per parse function.
Frame(fn) == [fn |-> fn, pc |-> "start"]
Frame_produceAST == [fn |-> "produceAST", pc |-> "loop", mark |-> -1]
Frame_parse_stmt(toks) == [fn |-> "parse_stmt", pc |-> "start", entry |-> Len(toks)]
Frame_parse_expr == Frame("parse_assignment_expr")
Frame_parse_call_expr(caller) ==
    [fn |-> "parse_call_expr", pc |-> "start", caller |-> caller]

(***************************************************************************)
(* produceAST: parse statements until the front token is EOF.              *)
(***************************************************************************)
produceAST ==
    /\ Running("produceAST")
    /\ LET f == Top IN
       CASE f.pc = "loop" ->
              At(tokens, LET tk == at(tokens) IN
                IF not_eof(tokens)
                THEN Go(tokens,
                        CallFrom([f EXCEPT !.pc = "push", !.mark = Len(tokens)],
                                 Frame_parse_stmt(tokens)),
                        ret)
                ELSE /\ status' = "returned"
                     /\ stack' = <<>>
                     /\ UNCHANGED <<input, tokens, ret, program, err>>)
         [] f.pc = "push" ->
              /\ program' = Append(program, ret)
              /\ stack' = Replace([f EXCEPT !.pc = "loop"])
              /\ UNCHANGED <<input, tokens, ret, status, err>>

(***************************************************************************)
(* parse_stmt: one-token dispatch on the statement kind.                   *)
(***************************************************************************)
StmtParser(type) ==
    CASE type \in {"Set", "Lock"} -> "parse_var_declaration"
      [] type = "Fun" -> "parse_fn_declaration"
      [] type = "If" -> "parse_if_stmt"
      [] OTHER -> "parse_assignment_expr"

parse_stmt ==
    /\ Running("parse_stmt")
    /\ LET f == Top IN
       CASE f.pc = "start" ->
              At(tokens, LET tk == at(tokens) IN
                Go(tokens,
                   CallFrom([f EXCEPT !.pc = "ret"], Frame(StmtParser(tk.type))),
                   ret))
         [] f.pc = "ret" -> Return(tokens, ret)

(***************************************************************************)
(* parse_if_stmt                                                           *)
(***************************************************************************)
\* The guard of every block-body loop: neither EOF nor a closing brace.
InBlock(tk) == tk.type # "EOF" /\ tk.type # "CloseBrace"

parse_if_stmt ==
    /\ Running("parse_if_stmt")
    /\ LET f == Top IN
       CASE f.pc = "start" ->
              Expect(tokens, "If", LET t1 == Shift(tokens) IN
                Go(t1,
                   CallFrom([fn |-> "parse_if_stmt", pc |-> "cond",
                             conditional |-> Undefined, consequent |-> <<>>,
                             alternate |-> <<>>, mark |-> -1],
                            Frame_parse_expr),
                   ret))
         [] f.pc = "cond" ->
              Expect(tokens, "OpenBrace", LET t1 == Shift(tokens) IN
                Go(t1, Replace([f EXCEPT !.conditional = ret, !.pc = "cons_loop"]),
                   ret))
         [] f.pc = "cons_loop" ->
              At(tokens, LET tk == at(tokens) IN
                IF InBlock(tk)
                THEN Go(tokens,
                        CallFrom([f EXCEPT !.pc = "cons_push", !.mark = Len(tokens)],
                                 Frame_parse_stmt(tokens)),
                        ret)
                ELSE Expect(tokens, "CloseBrace", LET t1 == Shift(tokens) IN
                       Go(t1, Replace([f EXCEPT !.pc = "else", !.mark = -1]), ret)))
         [] f.pc = "cons_push" ->
              Go(tokens,
                 Replace([f EXCEPT !.consequent = Append(@, ret), !.pc = "cons_loop"]),
                 ret)
         [] f.pc = "else" ->
              At(tokens, LET tk == at(tokens) IN
                IF tk.type = "Else"
                THEN At(eat(tokens), LET tk2 == at(eat(tokens)) IN
                       IF tk2.type = "If"
                       THEN Go(eat(tokens),
                               CallFrom([f EXCEPT !.pc = "alt_if"],
                                        Frame("parse_if_stmt")),
                               ret)
                       ELSE Expect(eat(tokens), "OpenBrace", LET t2 == Shift(eat(tokens)) IN
                              Go(t2,
                                 Replace([f EXCEPT !.alternate = <<>>,
                                                   !.pc = "alt_loop"]),
                                 ret)))
                ELSE Return(tokens, IfStmtNoElse(f.conditional, f.consequent)))
         [] f.pc = "alt_if" ->
              Return(tokens, IfStmt(f.conditional, f.consequent, <<ret>>))
         [] f.pc = "alt_loop" ->
              At(tokens, LET tk == at(tokens) IN
                IF InBlock(tk)
                THEN Go(tokens,
                        CallFrom([f EXCEPT !.pc = "alt_push", !.mark = Len(tokens)],
                                 Frame_parse_stmt(tokens)),
                        ret)
                ELSE Expect(tokens, "CloseBrace", LET t1 == Shift(tokens) IN
                       Return(t1, IfStmt(f.conditional, f.consequent, f.alternate))))
         [] f.pc = "alt_push" ->
              Go(tokens,
                 Replace([f EXCEPT !.alternate = Append(@, ret), !.pc = "alt_loop"]),
                 ret)

(***************************************************************************)
(* parse_fn_declaration                                                    *)
(***************************************************************************)
\* The parameter check: every argument node must be of kind Identifier.
ParamsAreNames(args) == \A i \in 1..Len(args) : args[i].kind = "Identifier"

\* params.push((arg as Identifier).symbol) for every argument
ParamNames(args) == [i \in 1..Len(args) |-> args[i].symbol]

parse_fn_declaration ==
    /\ Running("parse_fn_declaration")
    /\ LET f == Top IN
       CASE f.pc = "start" ->
              \* eat() the fun keyword, then expect the name
              Expect(eat(tokens), "Identifier", LET t1 == Shift(eat(tokens)) IN
                Go(t1,
                   CallFrom([fn |-> "parse_fn_declaration", pc |-> "args",
                             name |-> eat(tokens)[1].value, params |-> <<>>,
                             body |-> <<>>, mark |-> -1],
                            Frame("parse_args")),
                   ret))
         [] f.pc = "args" ->
              IF ~ParamsAreNames(ret.list)
              THEN Halt(tokens, "param_not_name")
              ELSE Expect(tokens, "OpenBrace", LET t1 == Shift(tokens) IN
                     Go(t1,
                        Replace([f EXCEPT
                                   !.params = ParamNames(ret.list),
                                   !.pc = "body_loop"]),
                        ret))
         [] f.pc = "body_loop" ->
              At(tokens, LET tk == at(tokens) IN
                IF InBlock(tk)
                THEN Go(tokens,
                        CallFrom([f EXCEPT !.pc = "body_push", !.mark = Len(tokens)],
                                 Frame_parse_stmt(tokens)),
                        ret)
                ELSE Expect(tokens, "CloseBrace", LET t1 == Shift(tokens) IN
                       Return(t1, FunctionDeclaration(f.body, f.name, f.params))))
         [] f.pc = "body_push" ->
              Go(tokens,
                 Replace([f EXCEPT !.body = Append(@, ret), !.pc = "body_loop"]),
                 ret)

(***************************************************************************)
(* parse_var_declaration                                                   *)
(***************************************************************************)
\* A declaration that never checks isConstant.
BareDeclarationAllowed_Always(isConstant) == TRUE

\* A declaration without initializer: `if (isConstant) throw ...`
BareDeclarationAllowed(isConstant) == ~isConstant

parse_var_declaration ==
    /\ Running("parse_var_declaration")
    /\ LET f == Top IN
       CASE f.pc = "start" ->
              LET isConstant == tokens[1].type = "Lock" IN
              Expect(eat(tokens), "Identifier", LET t1 == Shift(eat(tokens)) IN
                LET identifier == eat(tokens)[1].value IN
                At(t1, LET tk == at(t1) IN
                  IF tk.type = "Semicolon"
                  THEN IF BareDeclarationAllowed(isConstant)
                       THEN Return(eat(t1), BareVarDeclaration(identifier))
                       ELSE Halt(eat(t1), "const_no_value")
                  ELSE Expect(t1, "Equals", LET t2 == Shift(t1) IN
                         Go(t2,
                            CallFrom([fn |-> "parse_var_declaration", pc |-> "value",
                                      isConstant |-> isConstant,
                                      identifier |-> identifier],
                                     Frame_parse_expr),
                            ret))))
         [] f.pc = "value" ->
              Expect(tokens, "Semicolon", LET t1 == Shift(tokens) IN
                Return(t1, VarDeclaration(ret, f.identifier, f.isConstant)))

(***************************************************************************)
(* parse_assignment_expr (parse_expr only forwards to it)                  *)
(***************************************************************************)
parse_assignment_expr ==
    /\ Running("parse_assignment_expr")
    /\ LET f == Top IN
       CASE f.pc = "start" ->
              Go(tokens,
                 CallFrom([fn |-> "parse_assignment_expr", pc |-> "left",
                           left |-> Undefined],
                          Frame("parse_object_expr")),
                 ret)
         [] f.pc = "left" ->
              At(tokens, LET tk == at(tokens) IN
                IF tk.type = "Equals"
                THEN Go(eat(tokens),
                        CallFrom([f EXCEPT !.left = ret, !.pc = "value"],
                                 Frame("parse_assignment_expr")),
                        ret)
                ELSE Return(tokens, ret))
         [] f.pc = "value" -> Return(tokens, AssignmentExpr(ret, f.left))

(***************************************************************************)
(* parse_object_expr                                                       *)
(***************************************************************************)
\* A property loop that does not stop at the closing brace.
InObject_IgnoresCloseBrace(toks) == toks[1].type # "EOF"

\* The guard of the property loop.
InObject(toks) == not_eof(toks) /\ toks[1].type # "CloseBrace"

parse_object_expr ==
    /\ Running("parse_object_expr")
    /\ LET f == Top IN
       CASE f.pc = "start" ->
              At(tokens, LET tk == at(tokens) IN
                IF tk.type # "OpenBrace"
                THEN Go(tokens,
                        CallFrom([f EXCEPT !.pc = "additive"],
                                 Frame("parse_additive_expr")),
                        ret)
                ELSE Go(eat(tokens),
                        Replace([fn |-> "parse_object_expr", pc |-> "loop",
                                 properties |-> <<>>, key |-> "", mark |-> -1]),
                        ret))
         [] f.pc = "additive" -> Return(tokens, ret)
         [] f.pc = "loop" ->
              At(tokens, LET tk == at(tokens) IN
                IF InObject(tokens)
                THEN Expect(tokens, "Identifier", LET t1 == Shift(tokens) IN
                       LET key == tk.value
                           g == [f EXCEPT !.mark = Len(tokens)] IN
                       At(t1, LET tk1 == at(t1) IN
                         IF tk1.type = "Comma"
                         THEN Go(eat(t1),
                                 Replace([g EXCEPT !.properties =
                                            Append(@, ShorthandProperty(key))]),
                                 ret)
                         ELSE IF tk1.type = "CloseBrace"
                         THEN Go(t1,
                                 Replace([g EXCEPT !.properties =
                                            Append(@, ShorthandProperty(key))]),
                                 ret)
                         ELSE Expect(t1, "Colon", LET t2 == Shift(t1) IN
                                Go(t2,
                                   CallFrom([g EXCEPT !.key = key, !.pc = "value"],
                                            Frame_parse_expr),
                                   ret))))
                ELSE Expect(tokens, "CloseBrace", LET t1 == Shift(tokens) IN
                       Return(t1, ObjectLiteral(f.properties))))
         [] f.pc = "value" ->
              \* after the value: the closing brace, or else a comma is expected
              LET pushed == Replace([f EXCEPT
                                       !.properties = Append(@, Property(f.key, ret)),
                                       !.pc = "loop"]) IN
              At(tokens,
                IF at(tokens).type # "CloseBrace"
                THEN Expect(tokens, "Comma", Go(Shift(tokens), pushed, ret))
                ELSE Go(tokens, pushed, ret))

(***************************************************************************)
(* parse_additive_expr                                                     *)
(***************************************************************************)
\* An additive loop that also takes the equality operators.
AdditiveGuard_TakesEquality(toks) ==
    toks[1].value \in {"+", "==", "!="} \/ (toks[1].value = "-" /\ toks[1].type # "EOF")

\* The loop guard as JavaScript groups it: && binds tighter than ||.
AdditiveGuard(toks) ==
    toks[1].value = "+" \/ (toks[1].value = "-" /\ not_eof(toks))

parse_additive_expr ==
    /\ Running("parse_additive_expr")
    /\ LET f == Top IN
       CASE f.pc = "start" ->
              Go(tokens,
                 CallFrom([fn |-> "parse_additive_expr", pc |-> "left",
                           left |-> Undefined, operator |-> "", mark |-> -1],
                          Frame("parse_multiplicitave_expr")),
                 ret)
         [] f.pc = "left" ->
              Go(tokens, Replace([f EXCEPT !.left = ret, !.pc = "loop"]), ret)
         [] f.pc = "loop" ->
              At(tokens, LET tk == at(tokens) IN
                IF AdditiveGuard(tokens)
                THEN Go(eat(tokens),
                        CallFrom([f EXCEPT !.operator = tk.value, !.pc = "right",
                                           !.mark = Len(tokens)],
                                 Frame("parse_multiplicitave_expr")),
                        ret)
                ELSE Return(tokens, f.left))
         [] f.pc = "right" ->
              Go(tokens,
                 Replace([f EXCEPT !.left = BinaryExpr(f.left, ret, f.operator),
                                   !.pc = "loop"]),
                 ret)

(***************************************************************************)
(* parse_multiplicitave_expr                                               *)
(***************************************************************************)
\* A multiplicative loop that also takes `+`.
MultiplicativeGuard_TakesPlus(toks) == toks[1].value \in MulOps \cup {"+"}

MultiplicativeGuard(toks) == toks[1].value \in MulOps

parse_multiplicitave_expr ==
    /\ Running("parse_multiplicitave_expr")
    /\ LET f == Top IN
       CASE f.pc = "start" ->
              Go(tokens,
                 CallFrom([fn |-> "parse_multiplicitave_expr", pc |-> "left",
                           left |-> Undefined, operator |-> "", mark |-> -1],
                          Frame("parse_call_member_expr")),
                 ret)
         [] f.pc = "left" ->
              Go(tokens, Replace([f EXCEPT !.left = ret, !.pc = "loop"]), ret)
         [] f.pc = "loop" ->
              At(tokens, LET tk == at(tokens) IN
                IF MultiplicativeGuard(tokens)
                THEN Go(eat(tokens),
                        CallFrom([f EXCEPT !.operator = tk.value, !.pc = "right",
                                           !.mark = Len(tokens)],
                                 Frame("parse_call_member_expr")),
                        ret)
                ELSE Return(tokens, f.left))
         [] f.pc = "right" ->
              Go(tokens,
                 Replace([f EXCEPT !.left = BinaryExpr(f.left, ret, f.operator),
                                   !.pc = "loop"]),
                 ret)

(***************************************************************************)
(* parse_call_member_expr, parse_call_expr                                 *)
(***************************************************************************)
parse_call_member_expr ==
    /\ Running("parse_call_member_expr")
    /\ LET f == Top IN
       CASE f.pc = "start" ->
              Go(tokens,
                 CallFrom([f EXCEPT !.pc = "member"], Frame("parse_member_expr")),
                 ret)
         [] f.pc = "member" ->
              At(tokens, LET tk == at(tokens) IN
                IF tk.type = "OpenParen"
                THEN Go(tokens,
                        CallFrom([f EXCEPT !.pc = "call"], Frame_parse_call_expr(ret)),
                        ret)
                ELSE Return(tokens, ret))
         [] f.pc = "call" -> Return(tokens, ret)

parse_call_expr ==
    /\ Running("parse_call_expr")
    /\ LET f == Top IN
       CASE f.pc = "start" ->
              Go(tokens,
                 CallFrom([f EXCEPT !.pc = "args"], Frame("parse_args")),
                 ret)
         [] f.pc = "args" ->
              LET call_expr == CallExpr(f.caller, ret.list) IN
              At(tokens, LET tk == at(tokens) IN
                IF tk.type = "OpenParen"
                THEN Go(tokens,
                        CallFrom([f EXCEPT !.pc = "chain"],
                                 Frame_parse_call_expr(call_expr)),
                        ret)
                ELSE Return(tokens, call_expr))
         [] f.pc = "chain" -> Return(tokens, ret)

(***************************************************************************)
(* parse_args, parse_arguments_list                                        *)
(***************************************************************************)
parse_args ==
    /\ Running("parse_args")
    /\ LET f == Top IN
       CASE f.pc = "start" ->
              Expect(tokens, "OpenParen", LET t1 == Shift(tokens) IN
                At(t1, LET tk == at(t1) IN
                  IF tk.type = "CloseParen"
                  THEN Expect(t1, "CloseParen", LET t2 == Shift(t1) IN Return(t2, ArgList(<<>>)))
                  ELSE Go(t1,
                          CallFrom([f EXCEPT !.pc = "list"],
                                   Frame("parse_arguments_list")),
                          ret)))
         [] f.pc = "list" ->
              Expect(tokens, "CloseParen", LET t1 == Shift(tokens) IN Return(t1, ret))

parse_arguments_list ==
    /\ Running("parse_arguments_list")
    /\ LET f == Top IN
       CASE f.pc = "start" ->
              Go(tokens,
                 CallFrom([fn |-> "parse_arguments_list", pc |-> "next",
                           args |-> <<>>, mark |-> -1],
                          Frame("parse_assignment_expr")),
                 ret)
         [] f.pc = "next" ->
              Go(tokens,
                 Replace([f EXCEPT !.args = Append(@, ret), !.pc = "loop"]),
                 ret)
         [] f.pc = "loop" ->
              At(tokens, LET tk == at(tokens) IN
                IF tk.type = "Comma"
                THEN Go(eat(tokens),
                        CallFrom([f EXCEPT !.pc = "next", !.mark = Len(tokens)],
                                 Frame("parse_assignment_expr")),
                        ret)
                ELSE Return(tokens, ArgList(f.args)))

(***************************************************************************)
(* parse_member_expr                                                       *)
(***************************************************************************)
\* The check on the right-hand side of a dot: the node's kind.
IsDotProperty(property) == property.kind = "Identifier"

parse_member_expr ==
    /\ Running("parse_member_expr")
    /\ LET f == Top IN
       CASE f.pc = "start" ->
              Go(tokens,
                 CallFrom([fn |-> "parse_member_expr", pc |-> "object",
                           object |-> Undefined, mark |-> -1],
                          Frame("parse_primary_expr")),
                 ret)
         [] f.pc = "object" ->
              Go(tokens, Replace([f EXCEPT !.object = ret, !.pc = "loop"]), ret)
         [] f.pc = "loop" ->
              At(tokens, LET tk == at(tokens) IN
                IF tk.type = "Dot"
                THEN Go(eat(tokens),
                        CallFrom([f EXCEPT !.pc = "dot", !.mark = Len(tokens)],
                                 Frame("parse_primary_expr")),
                        ret)
                ELSE IF tk.type = "OpenBracket"
                THEN Go(eat(tokens),
                        CallFrom([f EXCEPT !.pc = "bracket", !.mark = Len(tokens)],
                                 Frame_parse_expr),
                        ret)
                ELSE Return(tokens, f.object))
         [] f.pc = "dot" ->
              IF ~IsDotProperty(ret)
              THEN Halt(tokens, "dot_rhs")
              ELSE Go(tokens,
                      Replace([f EXCEPT !.object = MemberExpr(f.object, ret, FALSE),
                                        !.pc = "loop"]),
                      ret)
         [] f.pc = "bracket" ->
              Expect(tokens, "CloseBracket", LET t1 == Shift(tokens) IN
                Go(t1,
                   Replace([f EXCEPT !.object = MemberExpr(f.object, ret, TRUE),
                                     !.pc = "loop"]),
                   ret))

(***************************************************************************)
(* parse_primary_expr                                                      *)
(***************************************************************************)
IsEqualityOperator(tk) == tk.type = "DoubleEquals" \/ tk.type = "NotEquals"

parse_primary_expr ==
    /\ Running("parse_primary_expr")
    /\ LET f == Top IN
       CASE f.pc = "start" ->
              At(tokens, LET tk == at(tokens) IN
                CASE tk.type = "Identifier" ->
                       Return(eat(tokens), Identifier(tk.value))
                  [] tk.type = "Number" ->
                       Return(eat(tokens), NumericLiteral(ParseFloat(tk.value)))
                  [] tk.type = "String" ->
                       Return(eat(tokens), StringLiteral(tk.value))
                  [] tk.type = "OpenParen" ->
                       Go(eat(tokens),
                          CallFrom([fn |-> "parse_primary_expr", pc |-> "left",
                                    left |-> Undefined, operator |-> ""],
                                   Frame_parse_expr),
                          ret)
                  [] OTHER -> Halt(tokens, "unexpected_token"))
         [] f.pc = "left" ->
              At(tokens, LET tk == at(tokens) IN
                IF IsEqualityOperator(tk)
                THEN Go(eat(tokens),
                        CallFrom([f EXCEPT !.left = ret, !.operator = tk.type,
                                           !.pc = "right"],
                                 Frame_parse_expr),
                        ret)
                ELSE Expect(tokens, "CloseParen", LET t1 == Shift(tokens) IN Return(t1, ret)))
         [] f.pc = "right" ->
              Expect(tokens, "CloseParen", LET t1 == Shift(tokens) IN
                Return(t1, EqualityExpr(f.left, f.operator, ret)))

(***************************************************************************)
(* The token sequences tokenize() may hand to the parser: ordered, ending  *)
(* in exactly one EOF token.                                               *)
(***************************************************************************)
SeqsUpTo(S, n) == UNION {[1..k -> S] : k \in 0..n}

\* One token of every type, and the additive and multiplicative operators.
AnyTokens ==
    {P(t) : t \in FixedTypes} \cup {Id("a"), Num("1"), Str("s"), Op("+"), Op("-"), Op("*")}

\* Operands and operators of arithmetic chains.
Operands == {Id("a"), Num("1")}
Operators == {Op(v) : v \in AddOps \cup MulOps}

RECURSIVE Chains(_)
Chains(n) ==
    IF n = 1 THEN {<<x>> : x \in Operands}
    ELSE {c \o <<o, x>> : c \in Chains(n - 1), o \in Operators, x \in Operands}

\* Tokens of calls, member accesses, parentheses and equality.
ExprTokens ==
    {Id("a"), P("OpenParen"), P("CloseParen"), P("Dot"), P("OpenBracket"),
     P("CloseBracket"), P("DoubleEquals")}

\* Whole programs, one for every construct of the grammar.
Corpus ==
    { \* a.b(1)[2]
      <<Id("a"), P("Dot"), Id("b"), P("OpenParen"), Num("1"), P("CloseParen"),
        P("OpenBracket"), Num("2"), P("CloseBracket")>>,
      \* a.b(1)(2)
      <<Id("a"), P("Dot"), Id("b"), P("OpenParen"), Num("1"), P("CloseParen"),
        P("OpenParen"), Num("2"), P("CloseParen")>>,
      \* a.b[1].c
      <<Id("a"), P("Dot"), Id("b"), P("OpenBracket"), Num("1"), P("CloseBracket"),
        P("Dot"), Id("c")>>,
      \* f(a = 1, b)
      <<Id("f"), P("OpenParen"), Id("a"), P("Equals"), Num("1"), P("Comma"), Id("b"),
        P("CloseParen")>>,
      \* set x;   lock x;
      <<P("Set"), Id("x"), P("Semicolon")>>,
      <<P("Lock"), Id("x"), P("Semicolon")>>,
      \* lock x = 1;   set x = 1 + 2 * 3;
      <<P("Lock"), Id("x"), P("Equals"), Num("1"), P("Semicolon")>>,
      <<P("Set"), Id("x"), P("Equals"), Num("1"), Op("+"), Num("2"), Op("*"), Num("3"),
        P("Semicolon")>>,
      \* set x = 1; lock y = x; x = y
      <<P("Set"), Id("x"), P("Equals"), Num("1"), P("Semicolon"), P("Lock"), Id("y"),
        P("Equals"), Id("x"), P("Semicolon"), Id("x"), P("Equals"), Id("y")>>,
      \* fun f(a, b) { a + b }
      <<P("Fun"), Id("f"), P("OpenParen"), Id("a"), P("Comma"), Id("b"), P("CloseParen"),
        P("OpenBrace"), Id("a"), Op("+"), Id("b"), P("CloseBrace")>>,
      \* fun f() { set x; x }
      <<P("Fun"), Id("f"), P("OpenParen"), P("CloseParen"), P("OpenBrace"), P("Set"),
        Id("x"), P("Semicolon"), Id("x"), P("CloseBrace")>>,
      \* fun f(1) { }   fun f((a)) { }   fun f(a.b) { }   fun f(a = 1) { }
      <<P("Fun"), Id("f"), P("OpenParen"), Num("1"), P("CloseParen"), P("OpenBrace"),
        P("CloseBrace")>>,
      <<P("Fun"), Id("f"), P("OpenParen"), P("OpenParen"), Id("a"), P("CloseParen"),
        P("CloseParen"), P("OpenBrace"), P("CloseBrace")>>,
      <<P("Fun"), Id("f"), P("OpenParen"), Id("a"), P("Dot"), Id("b"), P("CloseParen"),
        P("OpenBrace"), P("CloseBrace")>>,
      <<P("Fun"), Id("f"), P("OpenParen"), Id("a"), P("Equals"), Num("1"),
        P("CloseParen"), P("OpenBrace"), P("CloseBrace")>>,
      \* fun f(a, "s") { }   fun f(g()) { }
      <<P("Fun"), Id("f"), P("OpenParen"), Id("a"), P("Comma"), Str("s"),
        P("CloseParen"), P("OpenBrace"), P("CloseBrace")>>,
      <<P("Fun"), Id("f"), P("OpenParen"), Id("g"), P("OpenParen"), P("CloseParen"),
        P("CloseParen"), P("OpenBrace"), P("CloseBrace")>>,
      \* if (a == b) { set x = 1; }
      <<P("If"), P("OpenParen"), Id("a"), P("DoubleEquals"), Id("b"), P("CloseParen"),
        P("OpenBrace"), P("Set"), Id("x"), P("Equals"), Num("1"), P("Semicolon"),
        P("CloseBrace")>>,
      \* if (a == b) { set x = 1;      (unterminated)
      <<P("If"), P("OpenParen"), Id("a"), P("DoubleEquals"), Id("b"), P("CloseParen"),
        P("OpenBrace"), P("Set"), Id("x"), P("Equals"), Num("1"), P("Semicolon")>>,
      \* if a == b { }
      <<P("If"), Id("a"), P("DoubleEquals"), Id("b"), P("OpenBrace"), P("CloseBrace")>>,
      \* if a { b } else { a }
      <<P("If"), Id("a"), P("OpenBrace"), Id("b"), P("CloseBrace"), P("Else"),
        P("OpenBrace"), Id("a"), P("CloseBrace")>>,
      \* if a { } else if (a != b) { b } else { a b }
      <<P("If"), Id("a"), P("OpenBrace"), P("CloseBrace"), P("Else"), P("If"),
        P("OpenParen"), Id("a"), P("NotEquals"), Id("b"), P("CloseParen"),
        P("OpenBrace"), Id("b"), P("CloseBrace"), P("Else"), P("OpenBrace"), Id("a"),
        Id("b"), P("CloseBrace")>>,
      \* { a, }   { a: 1, }   { a, b: 2 }   { a: 1, b }   { a: 1 b }   { a: { b, }, }
      <<P("OpenBrace"), Id("a"), P("Comma"), P("CloseBrace")>>,
      <<P("OpenBrace"), Id("a"), P("Colon"), Num("1"), P("Comma"), P("CloseBrace")>>,
      <<P("OpenBrace"), Id("a"), P("Comma"), Id("b"), P("Colon"), Num("2"),
        P("CloseBrace")>>,
      <<P("OpenBrace"), Id("a"), P("Colon"), Num("1"), P("Comma"), Id("b"),
        P("CloseBrace")>>,
      <<P("OpenBrace"), Id("a"), P("Colon"), Num("1"), Id("b"), P("CloseBrace")>>,
      <<P("OpenBrace"), Id("a"), P("Colon"), P("OpenBrace"), Id("b"), P("Comma"),
        P("CloseBrace"), P("Comma"), P("CloseBrace")>>,
      \* x = { a: 1, };
      <<Id("x"), P("Equals"), P("OpenBrace"), Id("a"), P("Colon"), Num("1"),
        P("Comma"), P("CloseBrace")>>,
      \* a.(b)   a.(b).c   a."s"   a.b.1
      <<Id("a"), P("Dot"), P("OpenParen"), Id("b"), P("CloseParen")>>,
      <<Id("a"), P("Dot"), P("OpenParen"), Id("b"), P("CloseParen"), P("Dot"), Id("c")>>,
      <<Id("a"), P("Dot"), Str("s")>>,
      <<Id("a"), P("Dot"), Id("b"), P("Dot"), Num("1")>>,
      \* (a == b)   ((a == b) != (a))   f((a == b), a[(a != b)])
      <<P("OpenParen"), Id("a"), P("DoubleEquals"), Id("b"), P("CloseParen")>>,
      <<P("OpenParen"), P("OpenParen"), Id("a"), P("DoubleEquals"), Id("b"),
        P("CloseParen"), P("NotEquals"), P("OpenParen"), Id("a"), P("CloseParen"),
        P("CloseParen")>>,
      <<Id("f"), P("OpenParen"), P("OpenParen"), Id("a"), P("DoubleEquals"), Id("b"),
        P("CloseParen"), P("Comma"), Id("a"), P("OpenBracket"), P("OpenParen"), Id("a"),
        P("NotEquals"), Id("b"), P("CloseParen"), P("CloseBracket"), P("CloseParen")>>,
      \* f(a == b)   a[a == b]   { a: b == c }   set x = a == b;
      <<Id("f"), P("OpenParen"), Id("a"), P("DoubleEquals"), Id("b"), P("CloseParen")>>,
      <<Id("a"), P("OpenBracket"), Id("a"), P("DoubleEquals"), Id("b"),
        P("CloseBracket")>>,
      <<P("OpenBrace"), Id("a"), P("Colon"), Id("b"), P("DoubleEquals"), Id("c"),
        P("CloseBrace")>>,
      <<P("Set"), Id("x"), P("Equals"), Id("a"), P("DoubleEquals"), Id("b"),
        P("Semicolon")>>,
      \* (a + 1) * 2     (a == b) != 1
      <<P("OpenParen"), Id("a"), Op("+"), Num("1"), P("CloseParen"), Op("*"), Num("2")>>,
      <<P("OpenParen"), Id("a"), P("DoubleEquals"), Id("b"), P("CloseParen"),
        P("NotEquals"), Num("1")>>
    }

Inputs ==
    {s \o <<EOF>> : s \in SeqsUpTo(AnyTokens, MaxLen)}
    \cup {c \o <<EOF>> : c \in UNION {Chains(n) : n \in 1..MaxChain}}
    \cup {s \o <<EOF>> : s \in SeqsUpTo(ExprTokens, MaxExprLen)}
    \cup {s \o <<EOF>> : s \in Corpus}
    \cup {s \o <<e>> : s \in {<<>>} \cup Chains(1) \cup Chains(2), e \in EOFs}

(***************************************************************************)
(* The parser after `this.tokens = tokenize(sourceCode)`, about to enter   *)
(* the statement loop of produceAST with an empty program body.            *)
(***************************************************************************)
Init ==
    /\ input \in Inputs
    /\ tokens = input
    /\ stack = <<Frame_produceAST>>
    /\ ret = Undefined
    /\ program = <<>>
    /\ status = "running"
    /\ err = ""

Next ==
    \/ produceAST
    \/ parse_stmt
    \/ parse_if_stmt
    \/ parse_fn_declaration
    \/ parse_var_declaration
    \/ parse_assignment_expr
    \/ parse_object_expr
    \/ parse_additive_expr
    \/ parse_multiplicitave_expr
    \/ parse_call_member_expr
    \/ parse_call_expr
    \/ parse_args
    \/ parse_arguments_list
    \/ parse_member_expr
    \/ parse_primary_expr

Spec == Init /\ [][Next]_vars

\* The parser is synchronous, single-threaded code: a step that can be taken
\* is taken.
LiveSpec == Spec /\ WF_vars(Next)

(***************************************************************************)
(* Vocabulary of the properties.                                           *)
(***************************************************************************)
Returned == status = "returned"
Halted == status = "halted"
Finished == status # "running"

\* The two error kinds of the error-handling design: a Syntax Error is a
\* token mismatch (expect, unexpected primary, non-identifier after a dot),
\* a Declaration Error an invalid declaration.
SyntaxError == Halted /\ err \in {"expect", "unexpected_token", "dot_rhs"}
DeclarationError == Halted /\ err \in {"const_no_value", "param_not_name"}

\* The token of the input that was at the front when n tokens were left.
TokenAt(n) == input[Len(input) - n + 1]

(***************************************************************************)
(* C1.  a.b(1)[2]                                                          *)
(***************************************************************************)
Src_CallThenIndex ==
    <<Id("a"), P("Dot"), Id("b"), P("OpenParen"), Num("1"), P("CloseParen"),
      P("OpenBracket"), Num("2"), P("CloseBracket"), EOF>>

Call_a_b_1 ==
    CallExpr(MemberExpr(Identifier("a"), Identifier("b"), FALSE), <<NumericLiteral(1)>>)

\* C1: the token sequence of a.b(1)[2] parses, and yields the single statement
\* MemberExpr(computed) of CallExpr of MemberExpr(non-computed) of Identifier a,
\* the trailing [2] being part of that expression.
C1_CallThenIndexParses ==
    (input = Src_CallThenIndex /\ Finished) =>
        /\ Returned
        /\ program = <<MemberExpr(Call_a_b_1, NumericLiteral(2), TRUE)>>

(***************************************************************************)
(* C3.  Multiplicative operators bind tighter than additive ones.          *)
(***************************************************************************)
IsOperand(tk) == tk.type \in {"Identifier", "Number", "String"}
IsOperator(tk) == tk.type = "BinaryOperator" /\ tk.value \in AddOps \cup MulOps

\* The input is a flat chain: operand (operator operand)* EOF.
IsChain(s) ==
    /\ Len(s) % 2 = 0
    /\ \A i \in 1..(Len(s) - 1) : IF i % 2 = 1 THEN IsOperand(s[i]) ELSE IsOperator(s[i])

IsBinary(e, ops) == e.kind = "BinaryExpr" /\ e.operator \in ops

\* No * / % node of the tree has a + or - node as a direct child.
RECURSIVE NoAdditiveUnderMultiplicative(_)
NoAdditiveUnderMultiplicative(e) ==
    e.kind = "BinaryExpr" =>
        /\ IsBinary(e, MulOps) => ~IsBinary(e.left, AddOps) /\ ~IsBinary(e.right, AddOps)
        /\ NoAdditiveUnderMultiplicative(e.left)
        /\ NoAdditiveUnderMultiplicative(e.right)

\* The operand node parse_primary_expr builds from an operand token.
Leaf(tk) ==
    CASE tk.type = "Identifier" -> Identifier(tk.value)
      [] tk.type = "Number" -> NumericLiteral(ParseFloat(tk.value))
      [] tk.type = "String" -> StringLiteral(tk.value)

\* C3: a flat chain of operands joined by + - * / % parses to one statement in
\* which no * / % node has a + or - node as a direct child; x + y * z parses to
\* BinaryExpr(+, x, BinaryExpr(*, y, z)).
C3_MultiplicativeBindsTighter ==
    (IsChain(input) /\ Returned) =>
        /\ Len(program) = 1
        /\ NoAdditiveUnderMultiplicative(program[1])
        /\ (Len(input) = 6 /\ input[2].value = "+" /\ input[4].value = "*") =>
              program[1] = BinaryExpr(Leaf(input[1]),
                                      BinaryExpr(Leaf(input[3]), Leaf(input[5]), "*"),
                                      "+")

C3_Witness ==
    /\ input = <<Id("a"), Op("+"), Num("1"), Op("*"), Id("a"), EOF>>
    /\ Returned
    /\ program = <<BinaryExpr(Identifier("a"),
                              BinaryExpr(NumericLiteral(1), Identifier("a"), "*"),
                              "+")>>

(***************************************************************************)
(* C5.  Declarations without initializer.                                  *)
(***************************************************************************)
\* The input starts with a declaration without initializer: keyword name ;
StartsWithBareDeclaration(keyword) ==
    /\ Len(input) >= 4
    /\ input[1].type = keyword
    /\ input[2].type = "Identifier"
    /\ input[3].type = "Semicolon"

\* Every constant VarDeclaration among the statements of body, nested blocks
\* included, has a value.
RECURSIVE ConstantsHaveValues(_)
ConstantsHaveValues(body) ==
    \A i \in 1..Len(body) :
       LET n == body[i] IN
       CASE n.kind = "VarDeclaration" -> n.constant => "value" \in DOMAIN n
         [] n.kind = "FunctionDeclaration" -> ConstantsHaveValues(n.body)
         [] n.kind = "IfStmt" ->
              /\ ConstantsHaveValues(n.consequent)
              /\ "alternate" \in DOMAIN n => ConstantsHaveValues(n.alternate)
         [] OTHER -> TRUE

\* C5: `set x;` yields VarDeclaration{identifier x, constant false, no value};
\* `lock x;` halts with a Declaration Error and yields no VarDeclaration; every
\* constant VarDeclaration of a returned Program has a value.
C5_BareDeclarationOnlyMutable ==
    /\ (StartsWithBareDeclaration("Set") /\ (Finished \/ Len(program) >= 1)) =>
          /\ Len(program) >= 1
          /\ program[1] = BareVarDeclaration(input[2].value)
          /\ "value" \notin DOMAIN program[1]
    /\ (StartsWithBareDeclaration("Lock") /\ Finished) =>
          DeclarationError /\ err = "const_no_value" /\ program = <<>>
    /\ Returned => ConstantsHaveValues(program)

C5_Witness ==
    /\ input = <<P("Lock"), Id("x"), P("Semicolon"), EOF>>
    /\ DeclarationError
    /\ tokens = <<EOF>>

(***************************************************************************)
(* C6.  Function parameters.                                               *)
(***************************************************************************)
\* The input starts with `fun name (` and the tokens up to the first `)` are
\* single Identifier tokens separated by commas.
StartsWithFun ==
    /\ Len(input) >= 4
    /\ input[1].type = "Fun"
    /\ input[2].type = "Identifier"
    /\ input[3].type = "OpenParen"

BareParameterList ==
    \E k \in 4..Len(input) :
       /\ input[k].type = "CloseParen"
       /\ \A j \in 4..(k - 1) :
             input[j].type = (IF (j - 4) % 2 = 0 THEN "Identifier" ELSE "Comma")

\* The declaration of the first statement got past its parameter check.
ParametersAccepted ==
    /\ Len(stack) >= 3
    /\ stack[3].fn = "parse_fn_declaration"
    /\ stack[3].pc \in {"body_loop", "body_push"}

\* C6: a parameter list is accepted only when every argument is a single
\* Identifier token; any other argument form halts with a Declaration Error
\* before the `{` of the body is consumed.
C6_ParametersAreBareIdentifiers ==
    (StartsWithFun /\ program = <<>> /\ ParametersAccepted) => BareParameterList

(***************************************************************************)
(* C7.  The right-hand side of a dot.                                      *)
(***************************************************************************)
\* parse_member_expr has the property of a dot access in hand and accepts it.
DotPropertyAccepted ==
    /\ Running("parse_member_expr")
    /\ Top.pc = "dot"
    /\ IsDotProperty(ret)

\* C7: after a `.` the parse continues only if the next token is an Identifier
\* token; for any other right-hand side it halts and builds no non-computed
\* MemberExpr.
C7_DotRequiresIdentifierToken ==
    DotPropertyAccepted => TokenAt(Top.mark - 1).type = "Identifier"

(***************************************************************************)
(* C9.  Trailing comma in an object literal.                               *)
(***************************************************************************)
Src_ShorthandTrailingComma ==
    <<P("OpenBrace"), Id("a"), P("Comma"), P("CloseBrace"), EOF>>
Src_ValueTrailingComma ==
    <<P("OpenBrace"), Id("a"), P("Colon"), Num("1"), P("Comma"), P("CloseBrace"), EOF>>
Src_ValueNoComma ==
    <<P("OpenBrace"), Id("a"), P("Colon"), Num("1"), Id("b"), P("CloseBrace"), EOF>>

\* C9 as claimed: { a, } is accepted, { a: 1, } halts with a Syntax Error.
C9_TrailingCommaOnlyAfterShorthand ==
    /\ (input = Src_ShorthandTrailingComma /\ Finished) => Returned
    /\ (input = Src_ValueTrailingComma /\ Finished) => SyntaxError

\* C9 amended: a trailing comma before the closing brace is accepted after a
\* shorthand property and after a `key : Expr` property alike; what must follow
\* a `key : Expr` property is a comma or the closing brace.
C9_TrailingCommaAccepted ==
    /\ (input = Src_ShorthandTrailingComma /\ Finished) =>
          Returned /\ program = <<ObjectLiteral(<<ShorthandProperty("a")>>)>>
    /\ (input = Src_ValueTrailingComma /\ Finished) =>
          Returned /\ program = <<ObjectLiteral(<<Property("a", NumericLiteral(1))>>)>>
    /\ (input = Src_ValueNoComma /\ Finished) => SyntaxError /\ err = "expect"

C9_Witness ==
    /\ input = Src_ValueTrailingComma
    /\ Returned
    /\ program = <<ObjectLiteral(<<Property("a", NumericLiteral(1))>>)>>

(***************************************************************************)
(* C2.  Termination: every loop iteration consumes a token.                *)
(***************************************************************************)
\* The positions at which a loop tests its guard: the top-level loop, the
\* block-body loops, the property loop, the additive, multiplicative and
\* member loops and the argument-list loop.  A frame's mark is the buffer
\* length at the guard test that started the iteration just finished.
LoopHeads == {"loop", "cons_loop", "alt_loop", "body_loop"}

AtLoopHeadAgain == status = "running" /\ Top.pc \in LoopHeads /\ Top.mark # -1
StmtParsed == status = "running" /\ Top.fn = "parse_stmt" /\ Top.pc = "ret"

LoopsConsume ==
    /\ AtLoopHeadAgain => Len(tokens) < Top.mark
    /\ StmtParsed => Len(tokens) < Top.entry

\* C2: on an EOF-terminated token sequence produceAST terminates, returning a
\* Program or halting with an error; every call of parse_stmt and every
\* iteration of every loop removes at least one token or halts the parse.
C2_TerminatesConsuming == []LoopsConsume /\ <>Finished

C2_Witness ==
    /\ AtLoopHeadAgain
    /\ Top.fn = "parse_object_expr"
    /\ Len(Top.properties) = 2
    /\ Len(tokens) < Top.mark

(***************************************************************************)
(* C4.  Equality only inside parentheses.                                  *)
(***************************************************************************)
EqualityAtFront ==
    status = "running" /\ tokens # <<>> /\ IsEqualityOperator(tokens[1])

\* The parenthesised-primary rule, having parsed `( Expr`, takes its next step.
ParenthesisedRule == Running("parse_primary_expr") /\ Top.pc = "left"

Src_BareEquality == <<Id("a"), P("DoubleEquals"), Id("a"), EOF>>
Src_IfBareEquality ==
    <<P("If"), Id("a"), P("DoubleEquals"), Id("b"), P("OpenBrace"), P("CloseBrace"), EOF>>

\* The number of EqualityExpr nodes of a tree, and of a sequence of trees.
RECURSIVE EqualityNodes(_), EqualityNodesIn(_)
EqualityNodesIn(nodes) ==
    IF nodes = <<>> THEN 0
    ELSE EqualityNodes(Head(nodes)) + EqualityNodesIn(Tail(nodes))

EqualityNodes(n) ==
    CASE n.kind = "EqualityExpr" -> 1 + EqualityNodes(n.left) + EqualityNodes(n.right)
      [] n.kind = "BinaryExpr" -> EqualityNodes(n.left) + EqualityNodes(n.right)
      [] n.kind = "MemberExpr" -> EqualityNodes(n.object) + EqualityNodes(n.property)
      [] n.kind = "CallExpr" -> EqualityNodes(n.caller) + EqualityNodesIn(n.args)
      [] n.kind = "AssignmentExpr" -> EqualityNodes(n.value) + EqualityNodes(n.assigne)
      [] n.kind = "ObjectLiteral" -> EqualityNodesIn(n.properties)
      [] n.kind \in {"Property", "VarDeclaration"} ->
           IF "value" \in DOMAIN n THEN EqualityNodes(n.value) ELSE 0
      [] n.kind = "FunctionDeclaration" -> EqualityNodesIn(n.body)
      [] n.kind = "IfStmt" ->
           EqualityNodes(n.conditional) + EqualityNodesIn(n.consequent)
           + (IF "alternate" \in DOMAIN n THEN EqualityNodesIn(n.alternate) ELSE 0)
      [] OTHER -> 0

EqualityTokens == Cardinality({i \in DOMAIN input : IsEqualityOperator(input[i])})

\* C4: an EqualityExpr is built only by the parenthesised-primary rule; a `==`
\* or `!=` at the front of the buffer is consumed by that rule or else by a
\* step that halts the parse with a Syntax Error, so `a == b` and
\* `if a == b {` halt with a Syntax Error instead of returning a Program, and
\* a returned Program holds one EqualityExpr for every `==` or `!=` token.
C4_EqualityOnlyInParens ==
    /\ [][(EqualityAtFront /\ tokens' # tokens) =>
             \/ ParenthesisedRule /\ status' = "running"
             \/ SyntaxError']_vars
    /\ [][(ret'.kind = "EqualityExpr" /\ ret' # ret) =>
             Running("parse_primary_expr") /\ Top.pc = "right"]_vars
    /\ []((input \in {Src_BareEquality, Src_IfBareEquality} /\ Finished) => SyntaxError)
    /\ [](Returned => EqualityNodesIn(program) = EqualityTokens)

C4_Witness ==
    /\ input = Src_BareEquality
    /\ tokens = <<P("DoubleEquals"), Id("a"), EOF>>
    /\ program = <<Identifier("a")>>
    /\ SyntaxError

(***************************************************************************)
(* C8.  The EOF token stays in the buffer.                                 *)
(***************************************************************************)
\* C8: the buffer is non-empty wherever at() or not_eof() reads its front; EOF
\* is shifted out only by an expect() that then halts the parse; when
\* produceAST returns, the buffer is the single EOF token.
C8_EofNeverEaten ==
    /\ status = "running" => tokens # <<>>
    /\ err # "TypeError"
    /\ tokens = <<>> => (Halted /\ err = "expect")
    /\ Returned => tokens = <<input[Len(input)]>>

(***************************************************************************)
(* C10.  The guard of the additive loop.                                   *)
(***************************************************************************)
AdditiveLoopTest ==
    Running("parse_additive_expr") /\ Top.pc = "loop" /\ tokens # <<>>

\* C10: parse_additive_expr consumes the front token as an operator exactly
\* when its value is + or - and its type is not EOF.
C10_AdditiveGuardGrouped ==
    [][AdditiveLoopTest =>
          ((tokens' = eat(tokens)) <=>
             (tokens[1].value \in AddOps /\ tokens[1].type # "EOF"))]_vars

====
